---- MODULE Spec2Model ----
(***************************************************************************)
(* A model of the MrBeast channel dashboard: the YouTube API client with   *)
(* its time-windowed response cache (utils/youtube_api.py), the statistics *)
(* aggregation (utils/data_processing.py) and the page script (app.py).    *)
(*                                                                         *)
(* Python values are modelled as follows.  None is the record None.  A     *)
(* dict whose key may be missing is a record whose field holds an "absent" *)
(* marker (NoNum, NoStr, NoId, NoStamp, NoDuration) and d.get(k, default)  *)
(* is Get(d.k, absent, default).  An exception is a record [raised |-> e]. *)
(* The numeric strings of the provider ("viewCount": "160") are modelled   *)
(* by the number int() yields for them.  A float quotient a / b is the     *)
(* exact fraction [num |-> a, den |-> b].                                  *)
(***************************************************************************)
EXTENDS Integers, Sequences, FiniteSets, TLC

VARIABLES
    now,                \* the wall clock, in seconds
    cache,              \* the st.cache_data stores: cache key -> stored entry
    history,            \* per argument tuple, the last execution that returned
    lastCall,           \* the last API-client call and what its caller saw; prior
                        \* tells whether the same arguments had returned before
    videos, video_statistics, channel_stats, video_stats_df,
    YOUTUBE_API_KEY,    \* the process environment's YOUTUBE_API_KEY ("" when unset)
    pc,                 \* where the page script is
    runs,               \* the script runs started so far
    widgets,            \* the sidebar selections of this run
    youtube_api,        \* the YouTubeAPI object of this run
    channel_info,       \* the channel_info of this run
    page,               \* what this run has displayed
    filtered_df,        \* the videos the Video Performance tab lists
    insights,           \* the Key Insights of the Channel Performance tab
    duration_seconds_in,    \* the argument format_duration was applied to
    duration_text           \* what format_duration returned for it ("": not applied)

clientVars == <<now, cache, history, lastCall>>
aggVars == <<videos, video_statistics, channel_stats, video_stats_df>>
viewVars == <<filtered_df, insights>>
formatVars == <<duration_seconds_in, duration_text>>
appVars == <<YOUTUBE_API_KEY, pc, runs, widgets, youtube_api, channel_info, page,
             viewVars, formatVars>>

----------------------------------------------------------------------------
(* Bounds of the model *)

MaxVideoId == 2
MaxItems == 2
MaxCount == 3
MaxTicks == 2
ClockStep == 1800
MaxIds == 120
MaxRuns == 2
MaxSeconds == 7325

(* Program constants *)
ttl == 3600
ChunkSize == 50
max_results_default == 50
Forbidden == 403
Day == 86400

----------------------------------------------------------------------------
(* Python values *)

None == [none |-> TRUE]
NotComputed == [pending |-> TRUE]

NoNum == -1
NoId == 0
NoStr == "<absent>"
NoStamp == [form |-> "absent", instant |-> 0]
NoDuration == <<>>

Get(v, absent, default) == IF v = absent THEN default ELSE v

Raise(e) == [raised |-> e]
IsRaise(v) == "raised" \in DOMAIN v

VideoIds == 1..MaxVideoId

RECURSIVE SumSeq(_)
SumSeq(s) == IF s = <<>> THEN 0 ELSE Head(s) + SumSeq(Tail(s))

Range(s) == {s[i] : i \in DOMAIN s}

Injective(s) == \A i, j \in DOMAIN s : s[i] = s[j] => i = j

SeqsUpTo(S, n) == UNION {[1..k -> S] : k \in 0..n}

----------------------------------------------------------------------------
(* Provider documents (the shapes the functions below read) *)

(* A publish timestamp string: its lexical form and the instant it names.  *)
(* "Z" is the literal form YYYY-MM-DDTHH:MM:SSZ; "frac" carries fractional *)
(* seconds (YYYY-MM-DDTHH:MM:SS.fffZ).                                     *)
Stamp(form, instant) == [form |-> form, instant |-> instant]

(* A search result item: item["id"]["videoId"], possibly missing. *)
SearchItems == {[videoId |-> v] : v \in VideoIds \cup {NoId}}

(* Video i was published 9i - 8 days before the clock's origin. *)
PublishedInstant(i) == 0 - Day * (9 * i - 8)

(* The snippet of video i. *)
SnippetBlocks(i) ==
    { [title |-> NoStr, description |-> NoStr, publishedAt |-> NoStamp,
       thumbnail |-> NoStr] }
    \cup { [title |-> "stats title", description |-> "text",
            publishedAt |-> Stamp(f, PublishedInstant(i)), thumbnail |-> "stats url"]
           : f \in {"Z", "frac"} }

(* The statistics and contentDetails of a video: all fields missing, a     *)
(* video nobody viewed, a viewed video.  A duration is the ISO-8601 string *)
(* PT<h>H<m>M<s>S, by its three numbers.                                   *)
CountBlocks ==
    { [statistics |-> [viewCount |-> NoNum, likeCount |-> NoNum, commentCount |-> NoNum],
       contentDetails |-> [duration |-> NoDuration]],
      [statistics |-> [viewCount |-> 0, likeCount |-> 1, commentCount |-> 1],
       contentDetails |-> [duration |-> <<0, 0, 5>>]],
      [statistics |-> [viewCount |-> MaxCount, likeCount |-> 1, commentCount |-> 2],
       contentDetails |-> [duration |-> <<1, 2, 3>>]] }

(* A videos.list item. *)
StatisticsItems ==
    UNION { { [id |-> i, snippet |-> sn, statistics |-> cb.statistics,
               contentDetails |-> cb.contentDetails]
              : sn \in SnippetBlocks(i), cb \in CountBlocks }
            : i \in VideoIds }

Envelope(items) == [items |-> items]
NoItemsKey == [kind |-> "youtube#response"]

(* dict.get("items", []) *)
Items(env) == IF "items" \in DOMAIN env THEN env.items ELSE <<>>

SearchEnvelopes ==
    {NoItemsKey} \cup
    {Envelope(s) : s \in {q \in SeqsUpTo(SearchItems, MaxItems) : Injective(q)}}

StatisticsEnvelopes ==
    {NoItemsKey} \cup
    { Envelope(s) : s \in { q \in SeqsUpTo(StatisticsItems, MaxItems) :
                            Injective([k \in DOMAIN q |-> q[k].id]) } }

----------------------------------------------------------------------------
(* utils/data_processing.py *)

ZeroDivisionError == [num |-> 0, den |-> 0]
int0 == [num |-> 0, den |-> 1]

(* Python's a / b on numbers. *)
TrueDiv(a, b) == IF b = 0 THEN ZeroDivisionError ELSE [num |-> a, den |-> b]

(* isodate.parse_duration(s).total_seconds() *)
parse_duration(d) == d[1] * 3600 + d[2] * 60 + d[3]

duration_of(item) ==
    parse_duration(Get(item.contentDetails.duration, NoDuration, <<0, 0, 0>>))

ZeroSummary ==
    [video_count |-> 0, avg_views |-> int0, avg_likes |-> int0,
     avg_comments |-> int0, avg_duration_seconds |-> int0,
     total_views |-> 0, total_likes |-> 0, total_comments |-> 0]

(* Summarise with the averages taken over the statistics items. *)
Summarise_PerStatisticsItem(video_count, items) ==
    LET total(f(_)) == SumSeq([k \in DOMAIN items |-> f(items[k].statistics)])
        views(st) == Get(st.viewCount, NoNum, 0)
        likes(st) == Get(st.likeCount, NoNum, 0)
        comments(st) == Get(st.commentCount, NoNum, 0)
        total_duration_seconds == SumSeq([k \in DOMAIN items |-> duration_of(items[k])])
    IN  [video_count |-> video_count,
         avg_views |-> TrueDiv(total(views), Len(items)),
         avg_likes |-> TrueDiv(total(likes), Len(items)),
         avg_comments |-> TrueDiv(total(comments), Len(items)),
         avg_duration_seconds |-> TrueDiv(total_duration_seconds, Len(items)),
         total_views |-> total(views),
         total_likes |-> total(likes),
         total_comments |-> total(comments)]

Summarise(video_count, items) ==
    LET total_views == SumSeq([k \in DOMAIN items |->
                                Get(items[k].statistics.viewCount, NoNum, 0)])
        total_likes == SumSeq([k \in DOMAIN items |->
                                Get(items[k].statistics.likeCount, NoNum, 0)])
        total_comments == SumSeq([k \in DOMAIN items |->
                                Get(items[k].statistics.commentCount, NoNum, 0)])
        total_duration_seconds == SumSeq([k \in DOMAIN items |-> duration_of(items[k])])
        avg(total) == IF video_count > 0 THEN TrueDiv(total, video_count) ELSE int0
    IN  [video_count |-> video_count,
         avg_views |-> avg(total_views),
         avg_likes |-> avg(total_likes),
         avg_comments |-> avg(total_comments),
         avg_duration_seconds |-> avg(total_duration_seconds),
         total_views |-> total_views,
         total_likes |-> total_likes,
         total_comments |-> total_comments]

(* process_channel_statistics without the test of video_statistics. *)
process_channel_statistics_NoStatisticsTest(vs, vstats) ==
    IF vs = None THEN Raise("AttributeError")
    ELSE LET video_count == Len(Items(vs)) IN
         IF video_count = 0 THEN ZeroSummary
         ELSE IF vstats = None THEN Raise("AttributeError")
         ELSE Summarise(video_count, Items(vstats))

process_channel_statistics(vs, vstats) ==
    IF vs = None THEN Raise("AttributeError")
    ELSE LET video_count == Len(Items(vs)) IN
         IF video_count = 0 THEN ZeroSummary
         ELSE IF vstats = None THEN Raise("AttributeError")
         ELSE IF Items(vstats) = <<>> THEN ZeroSummary
         ELSE Summarise(video_count, Items(vstats))

(* datetime.strptime(s, "%Y-%m-%dT%H:%M:%SZ") *)
strptime(s) == IF s.form = "Z" THEN [datetime |-> s.instant] ELSE Raise("ValueError")

(* pd.to_datetime on the published_at column: None becomes NaT. *)
NaT == [form |-> "NaT", instant |-> 0]
to_datetime(s) == IF s = NoStamp THEN NaT ELSE [form |-> "Timestamp", instant |-> s.instant]

duration_formatted(duration_seconds) ==
    LET seconds == duration_seconds % 60
        minutes == (duration_seconds \div 60) % 60
        hours == (duration_seconds \div 60) \div 60
    IN  IF hours > 0 THEN <<"H:MM:SS", hours, minutes, seconds>>
        ELSE <<"M:SS", minutes, seconds>>

(* One pass of the loop over video_statistics["items"]: the row appended   *)
(* to video_data, or the exception strptime raises.                        *)
VideoRow(video) ==
    LET published_at == video.snippet.publishedAt
        parsed == IF published_at # NoStamp THEN strptime(published_at) ELSE None
    IN  IF IsRaise(parsed) THEN parsed
        ELSE [id |-> video.id,
              title |-> Get(video.snippet.title, NoStr, "Unknown"),
              description |-> Get(video.snippet.description, NoStr, ""),
              published_at |-> published_at,
              published_date |->
                  IF published_at # NoStamp
                  THEN [display |-> "%b %d, %Y", day |-> parsed.datetime]
                  ELSE [display |-> "Unknown", day |-> 0],
              views |-> Get(video.statistics.viewCount, NoNum, 0),
              likes |-> Get(video.statistics.likeCount, NoNum, 0),
              comments |-> Get(video.statistics.commentCount, NoNum, 0),
              duration_seconds |-> duration_of(video),
              duration |-> duration_formatted(duration_of(video)),
              thumbnail |-> Get(video.snippet.thumbnail, NoStr, "")]

DataFrame(rows) == [rows |-> rows]

Orderings(n) == {p \in [1..n -> 1..n] : \A i, j \in 1..n : p[i] = p[j] => i = j}

(* Before for ascending=True. *)
Before_Ascending(a, b) ==
    \/ b.published_at = NaT
    \/ a.published_at # NaT /\ a.published_at.instant <= b.published_at.instant

(* df.sort_values(by="published_at", ascending=False): newest first, NaT   *)
(* last; the default sort is not stable, so rows with equal keys come in   *)
(* any order.                                                              *)
Before(a, b) ==
    \/ b.published_at = NaT
    \/ a.published_at # NaT /\ a.published_at.instant >= b.published_at.instant

sort_values(rows) ==
    { [k \in DOMAIN rows |-> rows[p[k]]] :
        p \in { q \in Orderings(Len(rows)) :
                \A i, j \in DOMAIN rows : i < j => Before(rows[q[i]], rows[q[j]]) } }

(* The lookup video_search_data: the video ids of the search items. *)
video_search_data(vs) ==
    {Items(vs)[k].videoId : k \in DOMAIN Items(vs)} \ {NoId}

(* The set of values process_video_statistics may return. *)
process_video_statistics(vs, vstats) ==
    IF vs = None THEN {Raise("AttributeError")}
    ELSE IF Items(vs) = <<>> THEN {DataFrame(<<>>)}
    ELSE IF vstats = None THEN {Raise("AttributeError")}
    ELSE IF Items(vstats) = <<>> THEN {DataFrame(<<>>)}
    ELSE LET items == Items(vstats)
             video_data == [k \in DOMAIN items |-> VideoRow(items[k])]
         IN  IF \E k \in DOMAIN items : IsRaise(video_data[k])
             THEN {Raise("ValueError")}
             ELSE { DataFrame(r) :
                    r \in sort_values([k \in DOMAIN items |->
                            [video_data[k] EXCEPT
                               !.published_at = to_datetime(video_data[k].published_at)]]) }

(* format_duration with the minutes not reduced modulo 60. *)
format_duration_TotalMinutes(seconds) ==
    LET total_minutes == seconds \div 60
        secs == seconds % 60
        hrs == total_minutes \div 60
    IN  IF hrs > 0
        THEN ToString(hrs) \o "h " \o ToString(total_minutes) \o "m " \o ToString(secs) \o "s"
        ELSE IF total_minutes > 0
        THEN ToString(total_minutes) \o "m " \o ToString(secs) \o "s"
        ELSE ToString(secs) \o "s"

(* format_duration (lines 137-155): two divmod steps, then the f-string of *)
(* the first non-zero unit downwards; int() of a whole number is itself.   *)
format_duration(seconds) ==
    LET total_minutes == seconds \div 60
        secs == seconds % 60
        hrs == total_minutes \div 60
        mins == total_minutes % 60
    IN  IF hrs > 0
        THEN ToString(hrs) \o "h " \o ToString(mins) \o "m " \o ToString(secs) \o "s"
        ELSE IF mins > 0
        THEN ToString(mins) \o "m " \o ToString(secs) \o "s"
        ELSE ToString(secs) \o "s"

----------------------------------------------------------------------------
(* The provider, as googleapiclient's request.execute() presents it *)

(* What one execute() does: it returns the response, raises HttpError for  *)
(* an error status, or raises another exception when the transport fails   *)
(* or the body is no JSON.                                                 *)
Ok == [kind |-> "ok"]
HttpError(status, why) == [kind |-> "HttpError", status |-> status, why |-> why]
Outcomes ==
    { Ok,
      HttpError(Forbidden, "quotaExceeded"),
      HttpError(500, "backendError"),
      [kind |-> "ServerNotFoundError"],
      [kind |-> "JSONDecodeError"] }
CommentOutcomes ==
    Outcomes \cup {HttpError(Forbidden, "commentsDisabled"), HttpError(404, "videoNotFound")}

NoException == "none"

(* The counters of a video grow with the clock. *)
ProviderViews(i, t) == i + t \div ClockStep

ProviderItem(i, t) ==
    [id |-> i,
     snippet |-> [title |-> "stats title", description |-> "text",
                  publishedAt |-> Stamp("Z", PublishedInstant(i)),
                  thumbnail |-> "stats url"],
     statistics |-> [viewCount |-> ProviderViews(i, t), likeCount |-> 1,
                     commentCount |-> 2],
     contentDetails |-> [duration |-> <<1, 2, 3>>]]

(* The subsequence of s whose elements satisfy keep. *)
RECURSIVE Filter(_, _)
Filter(s, keep) ==
    IF s = <<>> THEN <<>>
    ELSE IF Head(s) \in keep THEN <<Head(s)>> \o Filter(Tail(s), keep)
    ELSE Filter(Tail(s), keep)

Take(s, n) == SubSeq(s, 1, IF Len(s) < n THEN Len(s) ELSE n)

(* channels().list(part="snippet,statistics", id=channel_id) *)
ChannelsList(channel_id, t) ==
    [items |-> <<[id |-> channel_id,
                  snippet |-> [title |-> "channel"],
                  statistics |-> [viewCount |-> t \div ClockStep]]>>,
     etag |-> t]

(* search().list(channelId=..., order="date", type="video", maxResults=..., *)
(* publishedAfter=...): the channel's videos not older than the bound,      *)
(* newest first (video 1 is the newest).                                    *)
SearchList(channel_id, published_after, max_results, t) ==
    [items |->
        Take([k \in 1..Cardinality({v \in VideoIds :
                    published_after = None
                    \/ PublishedInstant(v) >= published_after.after})
              |-> [videoId |-> k]], max_results),
     etag |-> t]

(* videos().list(part="snippet,statistics,contentDetails", id=chunk): one  *)
(* item per requested video the provider still serves.                     *)
VideosList(chunk, omitted, t) ==
    LET served == Filter(chunk, Range(chunk) \ omitted)
    IN  [items |-> [k \in DOMAIN served |-> ProviderItem(served[k], t)], etag |-> t]

(* commentThreads().list(videoId=..., maxResults=..., textFormat=...) *)
CommentThreadsList(video_id, max_results, t) ==
    [items |-> <<[videoId |-> video_id, text |-> "comment"]>>, etag |-> t]

----------------------------------------------------------------------------
(* utils/youtube_api.py *)

(* What a function body did: the value it returned or the exception it     *)
(* raised, the requests it sent, the responses it got and the st.error     *)
(* messages it displayed.                                                  *)
Returned(value, requests, responses, messages) ==
    [value |-> value, raised |-> NoException, requests |-> requests,
     responses |-> responses, messages |-> messages]
Raised(e, requests, responses) ==
    [value |-> None, raised |-> e, requests |-> requests,
     responses |-> responses, messages |-> <<>>]

(* try: ... except HttpError as e: st.error(message); return None *)
OnFailure(o, message, requests, responses) ==
    IF o.kind = "HttpError"
    THEN Returned(None, requests, responses, <<message>>)
    ELSE Raised(o.kind, requests, responses)

cached_channel_info(api_key, channel_id, o) ==
    LET request == [api |-> "channels.list", key |-> api_key, id |-> <<channel_id>>]
        response == ChannelsList(channel_id, now)
    IN  IF o = Ok THEN Returned(response, <<request>>, <<response>>, <<>>)
        ELSE OnFailure(o, "error: Error fetching channel information", <<request>>, <<>>)

cached_channel_videos(api_key, channel_id, published_after, max_results, o) ==
    LET request == [api |-> "search.list", key |-> api_key, id |-> <<channel_id>>,
                    publishedAfter |-> published_after, maxResults |-> max_results]
        response == SearchList(channel_id, published_after, max_results, now)
    IN  IF o = Ok THEN Returned(response, <<request>>, <<response>>, <<>>)
        ELSE OnFailure(o, "error: Error fetching channel videos", <<request>>, <<>>)

(* Chunks with slices one id too long: video_ids[i:i+51]. *)
Chunks_SliceTooLong(video_ids) ==
    [c \in 1..((Len(video_ids) + ChunkSize - 1) \div ChunkSize) |->
        SubSeq(video_ids, (c - 1) * ChunkSize + 1,
               IF c * ChunkSize + 1 < Len(video_ids) THEN c * ChunkSize + 1
               ELSE Len(video_ids))]

(* [video_ids[i:i+50] for i in range(0, len(video_ids), 50)] *)
Chunks(video_ids) ==
    [c \in 1..((Len(video_ids) + ChunkSize - 1) \div ChunkSize) |->
        SubSeq(video_ids, (c - 1) * ChunkSize + 1,
               IF c * ChunkSize < Len(video_ids) THEN c * ChunkSize ELSE Len(video_ids))]

RECURSIVE Extend(_, _)
(* all_items after the first n responses were passed to all_items.extend *)
Extend(responses, n) ==
    IF n = 0 THEN <<>> ELSE Extend(responses, n - 1) \o Items(responses[n])

(* failAt is the index of the chunk whose request fails with outcome o     *)
(* (0: none fails); omitted are the ids the provider does not serve.       *)
cached_videos_statistics(api_key, video_ids, failAt, o, omitted) ==
    IF video_ids = <<>> THEN Returned(Envelope(<<>>), <<>>, <<>>, <<>>)
    ELSE LET chunks == Chunks(video_ids)
             sent == IF failAt \in DOMAIN chunks THEN failAt ELSE Len(chunks)
             answered == IF failAt \in DOMAIN chunks THEN failAt - 1 ELSE Len(chunks)
             requests == [c \in 1..sent |->
                            [api |-> "videos.list", key |-> api_key, id |-> chunks[c]]]
             responses == [c \in 1..answered |-> VideosList(chunks[c], omitted, now)]
         IN  IF failAt \in DOMAIN chunks
             THEN OnFailure(o, "error: Error fetching video statistics", requests, responses)
             ELSE Returned(Envelope(Extend(responses, Len(responses))),
                           requests, responses, <<>>)

(* get_video_comments: 403 is taken for "comments disabled". *)
get_video_comments(api_key, video_id, max_results, o) ==
    LET request == [api |-> "commentThreads.list", key |-> api_key, id |-> <<video_id>>,
                    maxResults |-> max_results]
        response == CommentThreadsList(video_id, max_results, now)
    IN  IF o = Ok THEN Returned(response, <<request>>, <<response>>, <<>>)
        ELSE IF o.kind = "HttpError" /\ o.status = Forbidden
        THEN Returned(Envelope(<<>>), <<request>>, <<>>, <<>>)
        ELSE OnFailure(o, "error: Error fetching video comments", <<request>>, <<>>)

(* st.cache_data: one store per decorated function, keyed by the values of *)
(* all its arguments.                                                      *)
CacheKey(func, args) == <<func>> \o args

(* Fresh with ttl taken in milliseconds. *)
Fresh_Milliseconds(key) ==
    key \in DOMAIN cache /\ now * 1000 < cache[key].stored_at * 1000 + ttl

(* Fresh without a ttl. *)
Fresh_NoExpiry(key) == key \in DOMAIN cache

(* A stored entry serves calls until ttl seconds after it was stored. *)
Fresh(key) == key \in DOMAIN cache /\ now < cache[key].stored_at + ttl

NotContacted == [kind |-> "none"]

NoCall ==
    [op |-> "none", key |-> <<>>, at |-> 0, hit |-> FALSE, prior |-> "none",
     outcome |-> NotContacted, value |-> None, raised |-> NoException, requests |-> <<>>,
     responses |-> <<>>, messages |-> <<>>]

CallRecord(func, args, hit, outcome, body) ==
    [op |-> func, key |-> <<func>> \o args, at |-> now, hit |-> hit,
     prior |-> IF <<func>> \o args \notin DOMAIN history THEN "none"
               ELSE IF now < history[<<func>> \o args].at + ttl THEN "in window"
               ELSE "elapsed",
     outcome |-> outcome, value |-> body.value, raised |-> body.raised,
     requests |-> body.requests, responses |-> body.responses,
     messages |-> body.messages]

(* cache_data that stores no None. *)
cache_data_SkipNone(func, args, outcome, body) ==
    LET key == CacheKey(func, args) IN
    IF Fresh(key)
    THEN /\ lastCall' = CallRecord(func, args, TRUE, NotContacted,
                            Returned(cache[key].value, <<>>, <<>>, cache[key].messages))
         /\ UNCHANGED <<cache, history>>
    ELSE /\ lastCall' = CallRecord(func, args, FALSE, outcome, body)
         /\ IF body.raised = NoException
            THEN /\ cache' = IF body.value = None THEN cache
                             ELSE (key :> [value |-> body.value, stored_at |-> now,
                                           messages |-> body.messages]) @@ cache
                 /\ history' = ((<<func>> \o args) :> [value |-> body.value, at |-> now])
                               @@ history
            ELSE UNCHANGED <<cache, history>>

(* The wrapper st.cache_data(ttl=3600) puts around func: a fresh entry is  *)
(* returned (and its st.error messages are shown again) without running    *)
(* the body; otherwise the body runs and, unless it raises, its value is   *)
(* stored.  outcome is how the provider answered the body's requests.      *)
cache_data(func, args, outcome, body) ==
    LET key == CacheKey(func, args) IN
    IF Fresh(key)
    THEN /\ lastCall' = CallRecord(func, args, TRUE, NotContacted,
                            Returned(cache[key].value, <<>>, <<>>, cache[key].messages))
         /\ UNCHANGED <<cache, history>>
    ELSE /\ lastCall' = CallRecord(func, args, FALSE, outcome, body)
         /\ IF body.raised = NoException
            THEN /\ cache' = (key :> [value |-> body.value, stored_at |-> now,
                                      messages |-> body.messages]) @@ cache
                 /\ history' = ((<<func>> \o args) :> [value |-> body.value, at |-> now])
                               @@ history
            ELSE UNCHANGED <<cache, history>>

----------------------------------------------------------------------------
(* components/video_metrics.py and components/channel_metrics.py *)

(* The floats of a pandas column are fractions; x / 0 is inf for x > 0 and *)
(* NaN for x = 0, and raises nothing.                                      *)
inf == [num |-> 1, den |-> 0]
nan == [num |-> 0, den |-> 0]
float0 == [num |-> 0, den |-> 1]

SeriesDiv(a, b) == IF b # 0 THEN [num |-> a, den |-> b] ELSE IF a = 0 THEN nan ELSE inf
Times100(q) == IF q.den = 0 THEN q ELSE [num |-> q.num * 100, den |-> q.den]
fillna(q, value) == IF q = nan THEN value ELSE q

(* a <= b on floats that are not NaN *)
FloatLeq(a, b) == a.num * b.den <= b.num * a.den

(* Whether rows a, b may stand in this order after sort_values(by=by,      *)
(* ascending=ascending); missing values (NaT) come last either way.        *)
ColumnLeq(a, b, by) ==
    CASE by = "published_at" -> a.published_at.instant <= b.published_at.instant
      [] by = "views" -> a.views <= b.views
      [] by = "likes" -> a.likes <= b.likes
      [] by = "likes_per_view" -> FloatLeq(a.likes_per_view, b.likes_per_view)

Missing(a, by) == by = "published_at" /\ a.published_at = NaT

InOrder(a, b, by, ascending) ==
    \/ Missing(b, by)
    \/ /\ ~Missing(a, by)
       /\ IF ascending THEN ColumnLeq(a, b, by) ELSE ColumnLeq(b, a, by)

sort_values_by(rows, by, ascending) ==
    { [k \in DOMAIN rows |-> rows[p[k]]] :
        p \in { q \in Orderings(Len(rows)) :
                \A i, j \in DOMAIN rows :
                   i < j => InOrder(rows[q[i]], rows[q[j]], by, ascending) } }

(* The "Sort By" options (lines 32-52): the column and the direction. *)
sort_by_options ==
    [o \in {"Publication Date (Newest)", "Publication Date (Oldest)",
            "Views (High to Low)", "Views (Low to High)", "Likes (High to Low)",
            "Engagement Rate (High to Low)"} |->
        CASE o = "Publication Date (Newest)" -> [by |-> "published_at", ascending |-> FALSE]
          [] o = "Publication Date (Oldest)" -> [by |-> "published_at", ascending |-> TRUE]
          [] o = "Views (High to Low)" -> [by |-> "views", ascending |-> FALSE]
          [] o = "Views (Low to High)" -> [by |-> "views", ascending |-> TRUE]
          [] o = "Likes (High to Low)" -> [by |-> "likes", ascending |-> FALSE]
          [] o = "Engagement Rate (High to Low)" ->
                [by |-> "likes_per_view", ascending |-> FALSE]]

(* video_df[video_df["views"] >= min_views]: of the first n rows, those   *)
(* with at least min_views views, in order.                                *)
RECURSIVE Select(_, _, _)
Select(rows, min_views, n) ==
    IF n = 0 THEN <<>>
    ELSE IF rows[n].views >= min_views
    THEN Append(Select(rows, min_views, n - 1), rows[n])
    ELSE Select(rows, min_views, n - 1)

(* display_video_metrics that sorts and filters video_df itself. *)
display_video_metrics_InPlace(video_df, min_views, sort_by) ==
    IF video_df.rows = <<>>
    THEN {[video_df |-> video_df, filtered_df |-> NotComputed,
           shown |-> {"warning: No video data available"}]}
    ELSE LET derived == [k \in DOMAIN video_df.rows |->
                 [likes_per_view |->
                      fillna(Times100(SeriesDiv(video_df.rows[k].likes,
                                                video_df.rows[k].views)), float0),
                  comments_per_view |->
                      fillna(Times100(SeriesDiv(video_df.rows[k].comments,
                                                video_df.rows[k].views)), float0)]
                 @@ video_df.rows[k]]
             filtered == Select(derived, min_views, Len(derived))
         IN  { [video_df |-> [rows |-> sorted], filtered_df |-> [rows |-> sorted],
                shown |-> {"videos", "Video Comparison", "Video Performance Over Time"}]
               : sorted \in sort_values_by(filtered, sort_by_options[sort_by].by,
                                           sort_by_options[sort_by].ascending) }

(* display_video_metrics (video_metrics.py lines 7-178): the two derived   *)
(* columns are added to video_df itself (lines 21-22); the filter and the  *)
(* sort work on a copy (line 39).  Returns the possible outcomes: video_df *)
(* as the call leaves it, the frame listed and what is displayed.          *)
display_video_metrics(video_df, min_views, sort_by) ==
    IF video_df.rows = <<>>
    THEN {[video_df |-> video_df, filtered_df |-> NotComputed,
           shown |-> {"warning: No video data available"}]}
    ELSE LET derived == [k \in DOMAIN video_df.rows |->
                 [likes_per_view |->
                      fillna(Times100(SeriesDiv(video_df.rows[k].likes,
                                                video_df.rows[k].views)), float0),
                  comments_per_view |->
                      fillna(Times100(SeriesDiv(video_df.rows[k].comments,
                                                video_df.rows[k].views)), float0)]
                 @@ video_df.rows[k]]
             filtered == Select(derived, min_views, Len(derived))
         IN  { [video_df |-> [rows |-> derived], filtered_df |-> [rows |-> sorted],
                shown |-> {"videos", "Video Comparison", "Video Performance Over Time"}]
               : sorted \in sort_values_by(filtered, sort_by_options[sort_by].by,
                                           sort_by_options[sort_by].ascending) }

(* Series.idxmax(): the first position of the greatest value that is not   *)
(* NaN; 0 when every value is NaN.                                         *)
idxmax(column) ==
    LET valued == {k \in DOMAIN column : column[k] # nan}
        greatest == {k \in valued : \A j \in valued : FloatLeq(column[j], column[k])}
    IN  IF valued = {} THEN 0 ELSE CHOOSE k \in greatest : \A j \in greatest : k <= j

(* What video_df.loc[series.idxmax()] raises when every value is NaN:      *)
(* KeyError for the NaN label, or idxmax's own ValueError.                 *)
AllNaN == {"KeyError", "ValueError"}

NoInsights ==
    [most_popular |-> NoId, most_engaging |-> NoId, engagement_percent |-> nan,
     optimal_length |-> NoId, raised |-> NoException]

(* display_channel_metrics (channel_metrics.py lines 8-292), by its Key    *)
(* Insights (lines 279-292): the columns engagement_ratio and              *)
(* views_per_second are added to video_df itself.  Returns the possible    *)
(* outcomes: video_df as the call leaves it and the insights displayed.    *)
display_channel_metrics(stats, video_df) ==
    IF video_df.rows = <<>>
    THEN {[video_df |-> video_df, insights |-> NoInsights]}
    ELSE LET rows == video_df.rows
             most_popular == idxmax([k \in DOMAIN rows |-> [num |-> rows[k].views, den |-> 1]])
             engagement_ratio == [k \in DOMAIN rows |-> SeriesDiv(rows[k].likes, rows[k].views)]
             with_ratio == [k \in DOMAIN rows |->
                              [engagement_ratio |-> engagement_ratio[k]] @@ rows[k]]
             most_engaging == idxmax(engagement_ratio)
             views_per_second == [k \in DOMAIN rows |->
                                     SeriesDiv(rows[k].views, rows[k].duration_seconds)]
             with_both == [k \in DOMAIN rows |->
                              [views_per_second |-> views_per_second[k]] @@ with_ratio[k]]
             optimal_length == idxmax(views_per_second)
             popular == [NoInsights EXCEPT !.most_popular = rows[most_popular].id]
         IN  IF most_engaging = 0
             THEN { [video_df |-> [rows |-> with_ratio],
                     insights |-> [popular EXCEPT !.raised = e]] : e \in AllNaN }
             ELSE LET engaging ==
                        [popular EXCEPT
                            !.most_engaging = rows[most_engaging].id,
                            !.engagement_percent = Times100(engagement_ratio[most_engaging])]
                  IN  IF optimal_length = 0
                      THEN { [video_df |-> [rows |-> with_both],
                              insights |-> [engaging EXCEPT !.raised = e]] : e \in AllNaN }
                      ELSE { [video_df |-> [rows |-> with_both],
                              insights |-> [engaging EXCEPT
                                              !.optimal_length = rows[optimal_length].id]] }

----------------------------------------------------------------------------
(* The API client called by any caller *)

ApiKeys == {"key-1"}
MR_BEAST_CHANNEL_ID == "UCX6OQ3DkcsbYNE6H8uQQuVA"
ChannelIds == {MR_BEAST_CHANNEL_ID}
PublishedAfters == {None}
IdLists == {<<>>, [k \in 1..MaxVideoId |-> k]}

InitClient ==
    /\ now = 0
    /\ cache = <<>>
    /\ history = <<>>
    /\ lastCall = NoCall

InitIdle ==
    /\ videos = NotComputed
    /\ video_statistics = NotComputed
    /\ channel_stats = NotComputed
    /\ video_stats_df = NotComputed

(* No page script runs. *)
InitNoPage ==
    /\ YOUTUBE_API_KEY = "key-1"
    /\ pc = "none"
    /\ runs = 0
    /\ widgets = NotComputed
    /\ youtube_api = None
    /\ channel_info = NotComputed
    /\ page = {}
    /\ filtered_df = NotComputed
    /\ insights = NotComputed
    /\ duration_seconds_in = 0
    /\ duration_text = ""

Init == InitClient /\ InitIdle /\ InitNoPage

(* The client methods; key is self.api_key. *)

(* YouTubeAPI(key).get_channel_info(channel_id) *)
GetChannelInfo(key, channel_id, o) ==
    /\ cache_data("cached_channel_info", <<key, channel_id>>, o,
                  cached_channel_info(key, channel_id, o))
    /\ UNCHANGED now

(* YouTubeAPI(key).get_channel_videos(channel_id, published_after, max_results) *)
GetChannelVideos(key, channel_id, published_after, max_results, o) ==
    /\ cache_data("cached_channel_videos",
                  <<key, channel_id, published_after, max_results>>, o,
                  cached_channel_videos(key, channel_id, published_after,
                                        max_results, o))
    /\ UNCHANGED now

(* YouTubeAPI(key).get_videos_statistics(video_ids) *)
GetVideosStatistics(key, video_ids, failAt, o, omitted) ==
    /\ cache_data("cached_videos_statistics", <<key, video_ids>>,
                  IF failAt \in DOMAIN Chunks(video_ids) THEN o ELSE Ok,
                  cached_videos_statistics(key, video_ids, failAt, o, omitted))
    /\ UNCHANGED now

(* YouTubeAPI(key).get_video_comments(video_id, max_results): not cached *)
GetVideoComments(key, video_id, max_results, o) ==
    /\ lastCall' = [CallRecord("get_video_comments", <<key, video_id, max_results>>,
                               FALSE, o,
                               get_video_comments(key, video_id, max_results, o))
                    EXCEPT !.prior = "none"]
    /\ UNCHANGED <<now, cache, history>>

(* Time passes. *)
Tick ==
    /\ now < MaxTicks * ClockStep
    /\ now' = now + ClockStep
    /\ UNCHANGED <<cache, history, lastCall>>

(* The calls a caller of the client makes. *)
CallChannelInfo ==
    /\ \E key \in ApiKeys, channel_id \in ChannelIds, o \in Outcomes :
          GetChannelInfo(key, channel_id, o)
    /\ UNCHANGED <<aggVars, appVars>>

CallChannelVideos ==
    /\ \E key \in ApiKeys, channel_id \in ChannelIds,
          published_after \in PublishedAfters, o \in Outcomes :
          GetChannelVideos(key, channel_id, published_after, max_results_default, o)
    /\ UNCHANGED <<aggVars, appVars>>

CallVideosStatistics ==
    /\ \E key \in ApiKeys, video_ids \in IdLists, o \in Outcomes :
          GetVideosStatistics(key, video_ids, IF o = Ok THEN 0 ELSE 1, o, {})
    /\ UNCHANGED <<aggVars, appVars>>

CallVideoComments ==
    /\ \E key \in ApiKeys, o \in CommentOutcomes :
          GetVideoComments(key, 1, 100, o)
    /\ UNCHANGED <<aggVars, appVars>>

Pass ==
    /\ Tick
    /\ UNCHANGED <<aggVars, appVars>>

Next ==
    \/ CallChannelInfo
    \/ CallChannelVideos
    \/ CallVideosStatistics
    \/ CallVideoComments
    \/ Pass

vars == <<clientVars, aggVars, appVars>>

Spec == Init /\ [][Next]_vars

----------------------------------------------------------------------------
(* app.py: the page script, run top to bottom on every user interaction *)

days_map ==
    [p \in {"Last 7 days", "Last 30 days", "Last 90 days", "Last 365 days"} |->
        CASE p = "Last 7 days" -> 7
          [] p = "Last 30 days" -> 30
          [] p = "Last 90 days" -> 90
          [] p = "Last 365 days" -> 365]

(* The sidebar selections tried: a preset and two custom ranges, given by  *)
(* their start and end dates in days before the clock's origin.            *)
WidgetChoices ==
    { [filter_type |-> "Preset Periods", time_period |-> p, start_day |-> 0, end_day |-> 0]
      : p \in {"Last 7 days"} }
    \cup { [filter_type |-> "Custom Date Range", time_period |-> "", start_day |-> d[1],
            end_day |-> d[2]] : d \in {<<30, 5>>, <<0, 0>>} }

Environments == {"", "key-1"}

NoPage ==
    /\ videos = NotComputed
    /\ video_statistics = NotComputed
    /\ channel_stats = NotComputed
    /\ video_stats_df = NotComputed
    /\ youtube_api = None
    /\ channel_info = NotComputed
    /\ page = {}
    /\ filtered_df = NotComputed
    /\ insights = NotComputed
    /\ duration_seconds_in = 0
    /\ duration_text = ""

InitApp ==
    /\ InitClient
    /\ YOUTUBE_API_KEY \in Environments
    /\ pc = "start"
    /\ runs = 1
    /\ widgets \in WidgetChoices
    /\ NoPage

(* A user interaction starts the script again. *)
Rerun ==
    /\ pc \in {"stopped", "done", "handled"}
    /\ runs < MaxRuns
    /\ runs' = runs + 1
    /\ pc' = "start"
    /\ widgets' \in WidgetChoices
    /\ videos' = NotComputed
    /\ video_statistics' = NotComputed
    /\ channel_stats' = NotComputed
    /\ video_stats_df' = NotComputed
    /\ youtube_api' = None
    /\ channel_info' = NotComputed
    /\ page' = {}
    /\ filtered_df' = NotComputed
    /\ insights' = NotComputed
    /\ UNCHANGED <<clientVars, YOUTUBE_API_KEY, formatVars>>

(* CheckApiKey without st.stop(). *)
CheckApiKey_NoStop ==
    /\ pc = "start"
    /\ page' = IF YOUTUBE_API_KEY = "" THEN page \cup {"error: YouTube API key not found"}
               ELSE page
    /\ pc' = "client"
    /\ UNCHANGED <<clientVars, aggVars, YOUTUBE_API_KEY, viewVars, formatVars,
                   runs, widgets, youtube_api,
                   channel_info>>

(* Lines 21-24: os.getenv("YOUTUBE_API_KEY", ""); st.error and st.stop()   *)
(* when it is empty.                                                       *)
CheckApiKey ==
    /\ pc = "start"
    /\ IF YOUTUBE_API_KEY = ""
       THEN /\ page' = page \cup {"error: YouTube API key not found"}
            /\ pc' = "stopped"
       ELSE /\ pc' = "client"
            /\ page' = page
    /\ UNCHANGED <<clientVars, aggVars, YOUTUBE_API_KEY, viewVars, formatVars,
                   runs, widgets, youtube_api,
                   channel_info>>

(* Lines 26-118: YouTubeAPI(api_key), the sidebar theme and the title. *)
ConstructClient ==
    /\ pc = "client"
    /\ youtube_api' = [api_key |-> YOUTUBE_API_KEY]
    /\ page' = page \cup {"sidebar: Settings", "title"}
    /\ pc' = "channel info"
    /\ UNCHANGED <<clientVars, aggVars, YOUTUBE_API_KEY, viewVars, formatVars, runs,
                   widgets, channel_info>>

(* except Exception (lines 215-217): the generic handler. *)
Handled(shown) == shown \cup {"error: An error occurred while fetching data",
                              "info: Please check your API key and internet connection."}

(* The st.error messages of a call, as shown on the page. *)
Messages(call) == Range(call.messages)

(* Lines 122-135: get_channel_info and the channel header; subscripting    *)
(* None raises TypeError.                                                  *)
FetchChannelInfo ==
    /\ pc = "channel info"
    /\ \E o \in Outcomes : GetChannelInfo(youtube_api.api_key, MR_BEAST_CHANNEL_ID, o)
    /\ IF lastCall'.raised # NoException \/ lastCall'.value = None
       THEN /\ channel_info' = IF lastCall'.raised # NoException THEN channel_info
                               ELSE lastCall'.value
            /\ page' = Handled(page \cup Messages(lastCall'))
            /\ pc' = "handled"
       ELSE /\ channel_info' = lastCall'.value
            /\ page' = page \cup {"channel header"}
            /\ pc' = "videos"
    /\ UNCHANGED <<aggVars, YOUTUBE_API_KEY, viewVars, formatVars, runs, widgets, youtube_api>>

(* start_date with the preset counted back from today's date. *)
start_date_FromToday ==
    IF widgets.filter_type = "Preset Periods"
    THEN 0 - Day * days_map[widgets.time_period]
    ELSE 0 - Day * widgets.start_day

(* Lines 143-187: start_date from the selection and datetime.now(). *)
start_date ==
    IF widgets.filter_type = "Preset Periods"
    THEN now - Day * days_map[widgets.time_period]
    ELSE 0 - Day * widgets.start_day

(* Lines 161, 175-184: end_date, the last instant of the selected day; it  *)
(* is used in the "No videos found" warning only.                          *)
end_date ==
    IF widgets.filter_type = "Preset Periods"
    THEN now
    ELSE 0 - Day * widgets.end_day + Day - 1

(* Lines 137-196: the filter widgets, published_after, get_channel_videos  *)
(* and the test of videos["items"].                                        *)
FetchVideos ==
    /\ pc = "videos"
    /\ \E o \in Outcomes :
          GetChannelVideos(youtube_api.api_key, MR_BEAST_CHANNEL_ID,
                           [after |-> start_date], max_results_default, o)
    /\ IF lastCall'.raised # NoException \/ lastCall'.value = None
       THEN /\ videos' = IF lastCall'.raised # NoException THEN videos
                         ELSE lastCall'.value
            /\ page' = Handled(page \cup {"sidebar: Filter Options"} \cup Messages(lastCall'))
            /\ pc' = "handled"
       ELSE /\ videos' = lastCall'.value
            /\ IF lastCall'.value.items = <<>>
               THEN /\ page' = page \cup {"sidebar: Filter Options",
                                          "warning: No videos found"}
                    /\ pc' = "done"
               ELSE /\ page' = page \cup {"sidebar: Filter Options"}
                    /\ pc' = "statistics"
    /\ UNCHANGED <<video_statistics, channel_stats, video_stats_df, YOUTUBE_API_KEY,
                   viewVars, formatVars, runs, widgets, youtube_api, channel_info>>

(* Line 199 *)
video_ids == [k \in DOMAIN videos.items |-> videos.items[k].videoId]

(* Lines 199-200: get_videos_statistics for the ids found. *)
FetchStatistics ==
    /\ pc = "statistics"
    /\ \E o \in Outcomes :
          GetVideosStatistics(youtube_api.api_key, video_ids, IF o = Ok THEN 0 ELSE 1,
                              o, {})
    /\ IF lastCall'.raised # NoException
       THEN /\ page' = Handled(page)
            /\ pc' = "handled"
            /\ UNCHANGED video_statistics
       ELSE /\ video_statistics' = lastCall'.value
            /\ page' = page \cup Messages(lastCall')
            /\ pc' = "process"
    /\ UNCHANGED <<videos, channel_stats, video_stats_df, YOUTUBE_API_KEY, viewVars,
                   formatVars, runs, widgets,
                   youtube_api, channel_info>>

(* Lines 203-204: the two aggregations; either may raise. *)
Process ==
    /\ pc = "process"
    /\ LET stats == process_channel_statistics(videos, video_statistics) IN
       IF IsRaise(stats)
       THEN /\ page' = Handled(page)
            /\ pc' = "handled"
            /\ UNCHANGED <<channel_stats, video_stats_df>>
       ELSE /\ channel_stats' = stats
            /\ \E df \in process_video_statistics(videos, video_statistics) :
                  IF IsRaise(df)
                  THEN /\ page' = Handled(page)
                       /\ pc' = "handled"
                       /\ UNCHANGED video_stats_df
                  ELSE /\ video_stats_df' = df
                       /\ page' = page
                       /\ pc' = "render"
    /\ UNCHANGED <<clientVars, videos, video_statistics, YOUTUBE_API_KEY, viewVars,
                   formatVars, runs, widgets,
                   youtube_api, channel_info>>

(* The selections tried in the Video Performance tab (lines 29-36). *)
MinViewsChoices == {0, 2}
SortByChoices == DOMAIN sort_by_options

(* Lines 207-213: the two tabs; an exception of the first view ends the    *)
(* run in the generic handler before the second view is called.            *)
Render ==
    /\ pc = "render"
    /\ \E c \in display_channel_metrics(channel_stats, video_stats_df) :
          IF c.insights.raised # NoException
          THEN /\ video_stats_df' = c.video_df
               /\ insights' = c.insights
               /\ filtered_df' = filtered_df
               /\ page' = Handled(page \cup {"tab: Channel Performance",
                                             "tab: Video Performance"})
               /\ pc' = "handled"
          ELSE \E min_views \in MinViewsChoices, sort_by \in SortByChoices :
                 \E v \in display_video_metrics(c.video_df, min_views, sort_by) :
                    /\ video_stats_df' = v.video_df
                    /\ insights' = c.insights
                    /\ filtered_df' = v.filtered_df
                    /\ page' = page \cup {"tab: Channel Performance",
                                          "tab: Video Performance"} \cup v.shown
                    /\ pc' = "done"
    /\ UNCHANGED <<clientVars, videos, video_statistics, channel_stats, YOUTUBE_API_KEY,
                   formatVars, runs, widgets, youtube_api, channel_info>>

NextApp ==
    \/ Rerun
    \/ CheckApiKey
    \/ ConstructClient
    \/ FetchChannelInfo
    \/ FetchVideos
    \/ FetchStatistics
    \/ Process
    \/ Render
    \/ Pass

SpecApp == InitApp /\ [][NextApp]_vars

----------------------------------------------------------------------------
(* One bulk statistics lookup, for id lists of every length up to MaxIds *)

(* The ids the provider may have stopped serving. *)
ProbeIds == {1, ChunkSize + 1}

LookupStatistics ==
    /\ lastCall.op = "none"
    /\ \E n \in 0..MaxIds, failAt \in 0..3, o \in Outcomes \ {Ok},
          omitted \in SUBSET ProbeIds :
          GetVideosStatistics("key-1", [k \in 1..n |-> k], failAt, o, omitted)
    /\ UNCHANGED <<aggVars, appVars>>

NextChunk == LookupStatistics

SpecChunk == Init /\ [][NextChunk]_vars

----------------------------------------------------------------------------
(* The aggregation functions applied to arbitrary provider documents *)

InitAgg ==
    /\ InitClient
    /\ InitNoPage
    /\ videos \in SearchEnvelopes
    /\ video_statistics \in StatisticsEnvelopes
    /\ channel_stats = NotComputed
    /\ video_stats_df = NotComputed

AggregateChannel ==
    /\ channel_stats = NotComputed
    /\ channel_stats' = process_channel_statistics(videos, video_statistics)
    /\ UNCHANGED <<clientVars, appVars, videos, video_statistics, video_stats_df>>

BuildVideoTable ==
    /\ channel_stats # NotComputed
    /\ video_stats_df = NotComputed
    /\ video_stats_df' \in process_video_statistics(videos, video_statistics)
    /\ UNCHANGED <<clientVars, appVars, videos, video_statistics, channel_stats>>

NextAgg == AggregateChannel \/ BuildVideoTable

SpecAgg == InitAgg /\ [][NextAgg]_vars

----------------------------------------------------------------------------
(* The client called with an id list that takes two batches *)

LongIds == [k \in 1..(ChunkSize + 1) |-> k]

CallLongStatistics ==
    /\ \E failAt \in 0..2, o \in Outcomes \ {Ok} :
          GetVideosStatistics("key-1", LongIds, failAt, o, {})
    /\ UNCHANGED <<aggVars, appVars>>

NextBatch ==
    \/ CallChannelInfo
    \/ CallChannelVideos
    \/ CallLongStatistics
    \/ Pass

SpecBatch == Init /\ [][NextBatch]_vars

----------------------------------------------------------------------------
(* The two report views applied to the tables of arbitrary statistics *)

InitViews ==
    /\ InitClient
    /\ InitNoPage
    /\ videos = Envelope(<<[videoId |-> 1]>>)
    /\ video_statistics \in StatisticsEnvelopes
    /\ channel_stats = NotComputed
    /\ video_stats_df = NotComputed

(* tab1: display_channel_metrics(channel_stats, video_stats_df) *)
DisplayChannelMetrics ==
    /\ video_stats_df # NotComputed
    /\ ~IsRaise(video_stats_df)
    /\ insights = NotComputed
    /\ \E c \in display_channel_metrics(channel_stats, video_stats_df) :
          /\ video_stats_df' = c.video_df
          /\ insights' = c.insights
    /\ page' = page \cup {"tab: Channel Performance"}
    /\ UNCHANGED <<clientVars, videos, video_statistics, channel_stats, YOUTUBE_API_KEY,
                   pc, runs, widgets, youtube_api, channel_info, filtered_df, formatVars>>

(* tab2: display_video_metrics(video_stats_df) *)
DisplayVideoMetrics ==
    /\ video_stats_df # NotComputed
    /\ ~IsRaise(video_stats_df)
    /\ filtered_df = NotComputed
    /\ \E min_views \in MinViewsChoices, sort_by \in SortByChoices :
          \E v \in display_video_metrics(video_stats_df, min_views, sort_by) :
             /\ video_stats_df' = v.video_df
             /\ filtered_df' = v.filtered_df
             /\ page' = page \cup {"tab: Video Performance"} \cup v.shown
    /\ UNCHANGED <<clientVars, videos, video_statistics, channel_stats, YOUTUBE_API_KEY,
                   pc, runs, widgets, youtube_api, channel_info, insights, formatVars>>

NextViews ==
    \/ AggregateChannel
    \/ BuildVideoTable
    \/ DisplayChannelMetrics
    \/ DisplayVideoMetrics

SpecViews == InitViews /\ [][NextViews]_vars

----------------------------------------------------------------------------
(* format_duration applied to every whole number of seconds up to MaxSeconds *)

FormatDuration ==
    /\ duration_text = ""
    /\ \E s \in 0..MaxSeconds :
          /\ duration_seconds_in' = s
          /\ duration_text' = format_duration(s)
    /\ UNCHANGED <<clientVars, aggVars, YOUTUBE_API_KEY, pc, runs, widgets, youtube_api,
                   channel_info, page, viewVars>>

NextFormat == FormatDuration

SpecFormat == Init /\ [][NextFormat]_vars

----------------------------------------------------------------------------
(* Properties of the bulk statistics lookup (SpecChunk) *)

RECURSIVE Flatten(_)
Flatten(ss) == IF ss = <<>> THEN <<>> ELSE Head(ss) \o Flatten(Tail(ss))

IdsOf(items) == [k \in DOMAIN items |-> items[k].id]

(* C1: a lookup of n ids whose requests are all answered sends exactly     *)
(* ceil(n/50) requests (none for n = 0, which returns no items and shows   *)
(* no error), each with at most 50 ids, the batches in order making up the *)
(* id list, and returns the concatenation of the items of all responses;   *)
(* with distinct ids, each served at most once, it returns at most n       *)
(* records and none twice.                                                 *)
C1_Chunking ==
    (/\ lastCall.op = "cached_videos_statistics"
     /\ ~lastCall.hit
     /\ lastCall.outcome = Ok) =>
      LET ids == lastCall.key[3]
          n == Len(ids)
          reqs == lastCall.requests
          resps == lastCall.responses
      IN  /\ Len(reqs) * 50 >= n
          /\ Len(reqs) > 0 => (Len(reqs) - 1) * 50 < n
          /\ \A r \in DOMAIN reqs : Len(reqs[r].id) \in 1..50
          /\ Flatten([r \in DOMAIN reqs |-> reqs[r].id]) = ids
          /\ lastCall.raised = NoException
          /\ Len(resps) = Len(reqs)
          /\ lastCall.value.items = Flatten([r \in DOMAIN resps |-> resps[r].items])
          /\ n = 0 => /\ reqs = <<>>
                      /\ lastCall.value = [items |-> <<>>]
                      /\ lastCall.messages = <<>>
          /\ (/\ Injective(ids)
              /\ \A r \in DOMAIN resps :
                    /\ Injective(IdsOf(resps[r].items))
                    /\ Range(IdsOf(resps[r].items)) \subseteq Range(reqs[r].id))
             => /\ Len(lastCall.value.items) <= n
                /\ Injective(IdsOf(lastCall.value.items))

(* C1 witness: 120 ids looked up in batches of 50, 50 and 20, the provider *)
(* serving all but two of them.                                            *)
C1_Witness ==
    /\ lastCall.op = "cached_videos_statistics"
    /\ lastCall.outcome = Ok
    /\ Len(lastCall.key[3]) = 120
    /\ [r \in DOMAIN lastCall.requests |-> Len(lastCall.requests[r].id)] = <<50, 50, 20>>
    /\ Len(lastCall.value.items) = 118

----------------------------------------------------------------------------
(* Properties of the API client (Spec) *)

CachedFunctions ==
    {"cached_channel_info", "cached_channel_videos", "cached_videos_statistics"}

(* C2: a call of a cached function whose argument tuple has returned less  *)
(* than ttl seconds before sends no provider request and returns what that *)
(* earlier call returned, whatever was called in between.                  *)
C2_RepeatedCallServedFromCache ==
    (lastCall.op \in CachedFunctions /\ lastCall.prior = "in window") =>
      /\ lastCall.raised = NoException
      /\ lastCall.requests = <<>>
      /\ lastCall.value = history[lastCall.key].value

(* C2 witness: a search served from the cache at a later instant than its  *)
(* fetch, after a call with other arguments was fetched in between.        *)
C2_Witness ==
    /\ lastCall.op = "cached_channel_videos"
    /\ lastCall.prior = "in window"
    /\ lastCall.requests = <<>>
    /\ lastCall.value # None
    /\ lastCall.at > history[lastCall.key].at
    /\ \E k \in DOMAIN history : k # lastCall.key /\ history[k].at > history[lastCall.key].at

(* C3: what a cached function returns was produced less than ttl seconds   *)
(* before the call; a call whose argument tuple last returned ttl seconds   *)
(* ago or more runs the body again (sending its requests, of which an      *)
(* empty id list needs none) and returns the new result; and every result  *)
(* stays stored until its ttl seconds are over.                            *)
C3_NoStaleResponse ==
    /\ (lastCall.op \in CachedFunctions /\ lastCall.raised = NoException) =>
         /\ lastCall.key \in DOMAIN history
         /\ lastCall.value = history[lastCall.key].value
         /\ lastCall.at - history[lastCall.key].at < ttl
         /\ "etag" \in DOMAIN lastCall.value => lastCall.at - lastCall.value.etag < ttl
         /\ lastCall.prior # "in window" =>
              /\ ~lastCall.hit
              /\ history[lastCall.key].at = lastCall.at
              /\ \/ lastCall.requests # <<>>
                 \/ lastCall.op = "cached_videos_statistics" /\ lastCall.key[3] = <<>>
    /\ \A k \in DOMAIN history :
         now < history[k].at + ttl =>
           /\ k \in DOMAIN cache
           /\ cache[k].value = history[k].value
           /\ cache[k].stored_at = history[k].at

(* C3 witness: a channel lookup whose stored response had expired, fetched *)
(* again from the provider.                                                *)
C3_Witness ==
    /\ lastCall.op = "cached_channel_info"
    /\ lastCall.prior = "elapsed"
    /\ lastCall.requests # <<>>
    /\ lastCall.value # None
    /\ lastCall.value.etag = lastCall.at

CommentsDisabled == HttpError(Forbidden, "commentsDisabled")

(* C4 (as claimed): whenever a provider request of an operation fails, the *)
(* operation shows an error message (the disabled-comments case excepted)  *)
(* and returns None or an empty collection; no exception reaches the       *)
(* caller.                                                                 *)
C4_FailSoft ==
    (lastCall.op # "none" /\ lastCall.outcome \notin {Ok, NotContacted}) =>
      /\ lastCall.raised = NoException
      /\ lastCall.value \in {None, [items |-> <<>>]}
      /\ \/ lastCall.messages # <<>>
         \/ lastCall.op = "get_video_comments" /\ lastCall.outcome = CommentsDisabled

(* C6 (as claimed): get_video_comments returns an empty collection without *)
(* an error message exactly when the provider reports disabled comments;   *)
(* every other HTTP error shows an error and returns None.                 *)
C6_OnlyDisabledCommentsIsEmpty ==
    (lastCall.op = "get_video_comments" /\ lastCall.outcome # Ok) =>
      /\ (/\ lastCall.raised = NoException
          /\ lastCall.value = [items |-> <<>>]
          /\ lastCall.messages = <<>>) <=> lastCall.outcome = CommentsDisabled
      /\ (lastCall.outcome.kind = "HttpError" /\ lastCall.outcome # CommentsDisabled) =>
           /\ lastCall.raised = NoException
           /\ lastCall.value = None
           /\ lastCall.messages # <<>>

----------------------------------------------------------------------------
(* Properties of failed fetches (SpecBatch) *)

(* C19: a None returned by a cached function is stored like any response:  *)
(* a call whose arguments returned None less than ttl seconds before       *)
(* returns None again without a provider request; and a lookup one of      *)
(* whose batches fails with an HTTP error returns and stores None, not the *)
(* items of the batches answered before.                                   *)
C19_FailureIsCached ==
    lastCall.op \in CachedFunctions =>
      /\ (lastCall.prior = "in window" /\ history[lastCall.key].value = None) =>
           /\ lastCall.hit
           /\ lastCall.outcome = NotContacted
           /\ lastCall.requests = <<>>
           /\ lastCall.raised = NoException
           /\ lastCall.value = None
      /\ (~lastCall.hit /\ lastCall.outcome.kind = "HttpError") =>
           /\ lastCall.raised = NoException
           /\ lastCall.value = None
           /\ lastCall.key \in DOMAIN cache
           /\ cache[lastCall.key].value = None
           /\ cache[lastCall.key].stored_at = lastCall.at
      /\ \A k \in DOMAIN cache :
           cache[k].value = None \/ "etag" \in DOMAIN cache[k].value
             \/ (k[1] = "cached_videos_statistics"
                 /\ Len(cache[k].value.items) = Len(k[3]))

(* C19 witness: a two-batch lookup that had failed, answered with the      *)
(* stored None at a later instant.                                         *)
C19_Witness ==
    /\ lastCall.op = "cached_videos_statistics"
    /\ Len(lastCall.key[3]) > ChunkSize
    /\ lastCall.hit
    /\ lastCall.value = None
    /\ lastCall.requests = <<>>
    /\ lastCall.at > history[lastCall.key].at

----------------------------------------------------------------------------
(* Properties of the page script (SpecApp) *)

(* C5 (as claimed): a run in which a cached function returned the failure  *)
(* sentinel None does not end in the generic exception handler.            *)
C5_SentinelMeansNoData ==
    (/\ lastCall.op \in CachedFunctions
     /\ lastCall.raised = NoException
     /\ lastCall.value = None) => pc # "handled"

(* C7: with no API key in the environment, every run shows the error and   *)
(* stops: no client is constructed, no client call is made, nothing is     *)
(* fetched or computed and nothing else is displayed.                      *)
C7_MissingKeyHalts ==
    YOUTUBE_API_KEY = "" =>
      /\ pc \in {"start", "stopped"}
      /\ youtube_api = None
      /\ lastCall.op = "none"
      /\ DOMAIN cache = {}
      /\ channel_info = NotComputed
      /\ videos = NotComputed
      /\ video_statistics = NotComputed
      /\ channel_stats = NotComputed
      /\ video_stats_df = NotComputed
      /\ page \subseteq {"error: YouTube API key not found"}
      /\ pc = "stopped" => page = {"error: YouTube API key not found"}

(* C7 witness: a second run without an API key, stopped at the check. *)
C7_Witness ==
    /\ YOUTUBE_API_KEY = ""
    /\ runs > 1
    /\ pc = "stopped"
    /\ page = {"error: YouTube API key not found"}

(* C17 (as claimed): every video of the table of a run was published in   *)
(* the run's window: not before its start and, with a custom date range,  *)
(* not after the selected end date.                                       *)
C17_TableInsideWindow ==
    (/\ pc \in {"render", "done"}
     /\ video_stats_df # NotComputed
     /\ ~IsRaise(video_stats_df)) =>
      \A r \in DOMAIN video_stats_df.rows :
         /\ video_stats_df.rows[r].published_at.instant >= start_date
         /\ widgets.filter_type = "Custom Date Range"
              => video_stats_df.rows[r].published_at.instant <= end_date

(* The search of this run has been made and is the last client call. *)
VideosFetched ==
    lastCall.op = "cached_channel_videos" /\ pc \in {"statistics", "done", "handled"}

(* C18: with a preset period the bound passed to get_channel_videos is the *)
(* instant of the call minus the period, so the call is served from the    *)
(* cache only by an entry stored at that same instant and otherwise sends  *)
(* a search request, also within ttl seconds of an earlier pass with the   *)
(* same preset; with a custom range the bound is the selected start date   *)
(* alone and a pass within ttl seconds of an earlier return for it is      *)
(* served from the cache.                                                  *)
C18_PresetBoundFollowsClock ==
    VideosFetched =>
      IF widgets.filter_type = "Preset Periods"
      THEN /\ lastCall.key[4].after = lastCall.at - Day * days_map[widgets.time_period]
           /\ lastCall.hit => history[lastCall.key].at = lastCall.at
           /\ ~lastCall.hit => lastCall.requests # <<>>
           /\ \A k \in DOMAIN history :
                (/\ k[1] = "cached_channel_videos"
                 /\ history[k].at # lastCall.at
                 /\ k[4].after = history[k].at - Day * days_map[widgets.time_period])
                => k # lastCall.key
      ELSE /\ lastCall.key[4].after = 0 - Day * widgets.start_day
           /\ lastCall.prior = "in window" => lastCall.hit /\ lastCall.requests = <<>>

(* C18 witness: a pass less than ttl seconds after a pass with the same    *)
(* preset, searching the provider again.                                   *)
C18_Witness ==
    /\ VideosFetched
    /\ widgets.filter_type = "Preset Periods"
    /\ ~lastCall.hit
    /\ lastCall.requests # <<>>
    /\ \E k \in DOMAIN history :
          /\ k[1] = "cached_channel_videos"
          /\ k # lastCall.key
          /\ k[4].after = history[k].at - Day * days_map[widgets.time_period]
          /\ history[k].at < lastCall.at
          /\ lastCall.at < history[k].at + ttl

----------------------------------------------------------------------------
(* Properties of the aggregation (SpecAgg) *)

IsZero(q) == q.num = 0 /\ q.den # 0

RECURSIVE FieldTotal(_, _, _)
FieldTotal(items, field, n) ==
    IF n = 0 THEN 0
    ELSE FieldTotal(items, field, n - 1)
         + (IF items[n].statistics[field] = NoNum THEN 0 ELSE items[n].statistics[field])

(* C8: process_channel_statistics returns the all-zero summary (video_count, *)
(* the three totals and the averages all 0) whenever the search result has   *)
(* no items or the statistics result has no items, whatever the other holds. *)
C8_AllZeroSummary ==
    (/\ channel_stats # NotComputed
     /\ (Items(videos) = <<>> \/ Items(video_statistics) = <<>>))
    => /\ ~IsRaise(channel_stats)
       /\ channel_stats.video_count = 0
       /\ channel_stats.total_views = 0
       /\ channel_stats.total_likes = 0
       /\ channel_stats.total_comments = 0
       /\ IsZero(channel_stats.avg_views)
       /\ IsZero(channel_stats.avg_likes)
       /\ IsZero(channel_stats.avg_comments)
       /\ IsZero(channel_stats.avg_duration_seconds)

(* C8 witness: a summary computed from a non-empty search result and an   *)
(* empty statistics result.                                               *)
C8_Witness ==
    /\ channel_stats # NotComputed
    /\ Len(Items(videos)) = MaxItems
    /\ "items" \in DOMAIN video_statistics
    /\ Items(video_statistics) = <<>>

(* C9: with both inputs non-empty, video_count is the number of search     *)
(* items, each total is the sum of its field over all statistics items (a  *)
(* missing field counting 0), each average times video_count is its total, *)
(* and no quotient of any summary is a division by zero.                   *)
C9_TotalsAndAverages ==
    channel_stats # NotComputed =>
      /\ ~IsRaise(channel_stats)
      /\ channel_stats.avg_views.den # 0
      /\ channel_stats.avg_likes.den # 0
      /\ channel_stats.avg_comments.den # 0
      /\ channel_stats.avg_duration_seconds.den # 0
      /\ (Items(videos) # <<>> /\ Items(video_statistics) # <<>>) =>
           LET items == Items(video_statistics)
               n == Len(Items(videos))
               total(field) == FieldTotal(items, field, Len(items))
               exact(avg, t) == avg.num * n = t * avg.den
           IN  /\ channel_stats.video_count = n
               /\ channel_stats.total_views = total("viewCount")
               /\ channel_stats.total_likes = total("likeCount")
               /\ channel_stats.total_comments = total("commentCount")
               /\ exact(channel_stats.avg_views, channel_stats.total_views)
               /\ exact(channel_stats.avg_likes, channel_stats.total_likes)
               /\ exact(channel_stats.avg_comments, channel_stats.total_comments)

(* C9 witness: a summary over fewer search items than statistics items,   *)
(* one of them lacking its counts, with views to average.                 *)
C9_Witness ==
    /\ channel_stats # NotComputed
    /\ Len(Items(videos)) = 1
    /\ Len(Items(video_statistics)) = MaxItems
    /\ \E k \in DOMAIN Items(video_statistics) :
          Items(video_statistics)[k].statistics.viewCount = NoNum
    /\ channel_stats.total_views = MaxCount

(* C10 (as claimed): whenever the statistics result has items, the table   *)
(* holds exactly one record per statistics item, also when the search      *)
(* result has no items or none carries a video id, and each record's       *)
(* title, thumbnail and counts are those of its statistics item.           *)
C10_OneRecordPerStatisticsItem ==
    (video_stats_df # NotComputed /\ Items(video_statistics) # <<>>) =>
      /\ ~IsRaise(video_stats_df)
      /\ Len(video_stats_df.rows) = Len(Items(video_statistics))
      /\ \A k \in DOMAIN Items(video_statistics) :
           LET it == Items(video_statistics)[k] IN
           \E r \in DOMAIN video_stats_df.rows :
              LET row == video_stats_df.rows[r] IN
              /\ row.id = it.id
              /\ row.title = (IF it.snippet.title = NoStr THEN "Unknown"
                              ELSE it.snippet.title)
              /\ row.thumbnail = (IF it.snippet.thumbnail = NoStr THEN ""
                                  ELSE it.snippet.thumbnail)
              /\ row.views = FieldTotal(<<it>>, "viewCount", 1)
              /\ row.likes = FieldTotal(<<it>>, "likeCount", 1)
              /\ row.comments = FieldTotal(<<it>>, "commentCount", 1)

IsTable(df) == df # NotComputed /\ ~IsRaise(df)

(* C11 (as claimed): every record of the table has an id that occurs in    *)
(* the search result and in the statistics result.                         *)
C11_IdsInBothSources ==
    IsTable(video_stats_df) =>
      \A r \in DOMAIN video_stats_df.rows :
         /\ \E k \in DOMAIN Items(videos) :
               Items(videos)[k].videoId = video_stats_df.rows[r].id
         /\ \E k \in DOMAIN Items(video_statistics) :
               Items(video_statistics)[k].id = video_stats_df.rows[r].id

(* C12: any two records of the table that both have a timestamp stand      *)
(* newest first, and a search result or statistics result without items    *)
(* gives the empty table, not an error.                                    *)
C12_NewestFirst ==
    video_stats_df # NotComputed =>
      /\ (Items(videos) = <<>> \/ Items(video_statistics) = <<>>)
           => video_stats_df = [rows |-> <<>>]
      /\ ~IsRaise(video_stats_df) =>
           \A i, j \in DOMAIN video_stats_df.rows :
              (/\ i < j
               /\ video_stats_df.rows[i].published_at.form = "Timestamp"
               /\ video_stats_df.rows[j].published_at.form = "Timestamp")
              => video_stats_df.rows[i].published_at.instant
                   >= video_stats_df.rows[j].published_at.instant

(* C12 witness: statistics items given oldest first, tabled newest first.  *)
C12_Witness ==
    /\ IsTable(video_stats_df)
    /\ Len(Items(video_statistics)) >= 2
    /\ Items(video_statistics)[1].id = 2
    /\ Items(video_statistics)[2].id = 1
    /\ Len(video_stats_df.rows) = Len(Items(video_statistics))
    /\ video_stats_df.rows[1].id = 1
    /\ video_stats_df.rows[2].id = 2
    /\ video_stats_df.rows[1].published_at.instant > video_stats_df.rows[2].published_at.instant

(* C13 (as claimed): with both inputs non-empty the table is built, and    *)
(* every statistics item whose publishedAt is absent or not of the form    *)
(* YYYY-MM-DDTHH:MM:SSZ has a record, displayed as "Unknown".              *)
C13_UnparsableIsUnknown ==
    (/\ video_stats_df # NotComputed
     /\ Items(videos) # <<>>
     /\ Items(video_statistics) # <<>>) =>
      /\ ~IsRaise(video_stats_df)
      /\ \A k \in DOMAIN Items(video_statistics) :
           Items(video_statistics)[k].snippet.publishedAt.form # "Z" =>
             \E r \in DOMAIN video_stats_df.rows :
                /\ video_stats_df.rows[r].id = Items(video_statistics)[k].id
                /\ video_stats_df.rows[r].published_date.display = "Unknown"

----------------------------------------------------------------------------
(* Properties of the report views (SpecViews) *)

(* C14 (as claimed): a record with no views has an engagement ratio, a     *)
(* likes_per_view and a comments_per_view of exactly 0, whatever its likes *)
(* and comments; the Key Insights raise nothing, and a record with no      *)
(* views is not the most engaging video when another record has a finite   *)
(* positive ratio.                                                         *)
C14_ZeroViewsZeroRatio ==
    IsTable(video_stats_df) =>
      /\ \A r \in DOMAIN video_stats_df.rows :
           LET row == video_stats_df.rows[r] IN
           row.views = 0 =>
             /\ "likes_per_view" \in DOMAIN row => IsZero(row.likes_per_view)
             /\ "comments_per_view" \in DOMAIN row => IsZero(row.comments_per_view)
             /\ "engagement_ratio" \in DOMAIN row => IsZero(row.engagement_ratio)
      /\ insights # NotComputed =>
           /\ insights.raised = NoException
           /\ \A r, q \in DOMAIN video_stats_df.rows :
                (/\ video_stats_df.rows[r].id = insights.most_engaging
                 /\ video_stats_df.rows[r].views = 0)
                => ~(video_stats_df.rows[q].views > 0 /\ video_stats_df.rows[q].likes > 0)

SourceColumns ==
    {"id", "title", "description", "published_at", "published_date", "views", "likes",
     "comments", "duration_seconds", "duration", "thumbnail"}

(* C16: a step taken once the table and the summary exist (a view being    *)
(* rendered, with any threshold and any sort) leaves the summary as it is  *)
(* and the table with the same records in the same order, every source     *)
(* field unchanged; a record only gains columns.                           *)
C16_SourceFieldsKept ==
    [][(IsTable(video_stats_df) /\ channel_stats # NotComputed) =>
         /\ channel_stats' = channel_stats
         /\ IsTable(video_stats_df')
         /\ Len(video_stats_df'.rows) = Len(video_stats_df.rows)
         /\ \A k \in DOMAIN video_stats_df.rows :
              /\ DOMAIN video_stats_df.rows[k] \subseteq DOMAIN video_stats_df'.rows[k]
              /\ \A f \in SourceColumns :
                   video_stats_df'.rows[k][f] = video_stats_df.rows[k][f]]_vars

(* C16 witness: both views rendered, the Video Performance tab listing the *)
(* records in another order than the table holds them.                     *)
C16_Witness ==
    /\ IsTable(video_stats_df)
    /\ insights # NotComputed
    /\ filtered_df # NotComputed
    /\ Len(video_stats_df.rows) >= 2
    /\ Len(filtered_df.rows) = Len(video_stats_df.rows)
    /\ filtered_df.rows[1].id = video_stats_df.rows[2].id
    /\ "engagement_ratio" \in DOMAIN video_stats_df.rows[1]
    /\ "likes_per_view" \in DOMAIN video_stats_df.rows[1]

----------------------------------------------------------------------------
(* Properties of format_duration (SpecFormat) *)

(* C15: for s whole seconds, with h = s div 3600, m = (s mod 3600) div 60  *)
(* and r = s mod 60, format_duration(s) is "{h}h {m}m {r}s" when h > 0,    *)
(* "{m}m {r}s" when h = 0 and m > 0, and "{r}s" otherwise; it is defined   *)
(* for every such s and changes nothing else.                              *)
C15_FormatDuration ==
    duration_text # "" =>
      LET s == duration_seconds_in
          h == s \div 3600
          m == (s % 3600) \div 60
          r == s % 60
      IN  /\ h > 0 => duration_text
                        = ToString(h) \o "h " \o ToString(m) \o "m " \o ToString(r) \o "s"
          /\ (h = 0 /\ m > 0) => duration_text = ToString(m) \o "m " \o ToString(r) \o "s"
          /\ (h = 0 /\ m = 0) => duration_text = ToString(r) \o "s"
          /\ s = 0 => duration_text = "0s"
          /\ s = 65 => duration_text = "1m 5s"
          /\ s = 3661 => duration_text = "1h 1m 1s"
          /\ s = 3600 => duration_text = "1h 0m 0s"
          /\ lastCall = NoCall
          /\ cache = <<>>
          /\ page = {}
          /\ video_stats_df = NotComputed

(* C15 witness: format_duration(3661) = "1h 1m 1s". *)
C15_Witness ==
    /\ duration_seconds_in = 3661
    /\ duration_text = "1h 1m 1s"

====
